---- MODULE Spec2Model ----
(***************************************************************************)
(* Model of the real-time layer of the stock dashboard front end:          *)
(*   - WebSocketService (services/websocket.js): connection lifecycle,     *)
(*     reconnect policy, listener registry and fan-out;                    *)
(*   - Dashboard (pages/Dashboard.jsx): connection indicator and the       *)
(*     stock_update reconciler;                                            *)
(*   - AlertBar (components/AlertBar.jsx): the bounded, self-expiring      *)
(*     alert list.                                                         *)
(* Scheduling is the browser's event loop: every action below is one       *)
(* callback or one public call, run to completion.                         *)
(***************************************************************************)
EXTENDS Integers, Sequences, FiniteSets, TLC

(***************************************************************************)
(* Program constants                                                       *)
(***************************************************************************)
maxReconnectAttempts == 5

reconnectDelay == 3000

alertRetentionCount == 5

alertTtlMs == 10000

(***************************************************************************)
(* Bounds of the model                                                     *)
(***************************************************************************)
\* connections under way at the same time: WebSocket objects that have not
\* fired their close event, and scheduled reconnects
MaxChannels == 2

\* entries a caller of the service has in the listener registry, over all
\* event types
MaxSubs == 3

\* no array of the registry is longer than this
MaxArray == 16

\* advances of the virtual clock over one run
MaxTicks == 6

\* advances of the clock over one run of the alert list
MaxClockSteps == 3

\* alert-class frames delivered to AlertBar over one run
MaxAlerts == 6

\* alert-class frames delivered to AlertBar over one run in which the clock
\* always reaches the next timer
MaxLiveAlerts == 3

\* alert-class frames of one burst: arrivals with no expiry and no dismissal
\* in between
MaxBurst == 7

(***************************************************************************)
(* Values                                                                  *)
(***************************************************************************)
NULL == [null |-> TRUE]

UNDEFINED == "undefined"

\* a Map with no entry
EmptyMap == [t \in {} |-> <<>>]

Channels == 1..MaxChannels

\* handlers of the application
DashboardHandlers == {"onConnection", "onStockUpdate"}

AlertBarHandlers == {"handleAlert"}

\* handlers of a caller of the service: hA only takes the event,
\* hThrow raises, hUnsub unsubscribes itself from the type it is called for,
\* hSub subscribes hA to the type it is called for
CallerHandlers == {"hA", "hThrow", "hUnsub", "hSub"}

\* obj[f] of JavaScript: undefined when the property is absent
Get(obj, f) == IF f \in DOMAIN obj THEN obj[f] ELSE UNDEFINED

\* { ...a, ...b }
Spread(a, b) ==
    [f \in (DOMAIN a) \cup (DOMAIN b) |-> IF f \in DOMAIN b THEN b[f] ELSE a[f]]

\* number of entries of a registry
TotalSubs(m) == Cardinality({<<k, i>> \in (DOMAIN m) \X (1..MaxArray) : i <= Len(m[k])})

\* number of its entries made by the caller of the service
CallerSubs(m) ==
    Cardinality({<<k, i>> \in (DOMAIN m) \X (1..MaxArray) :
                    i <= Len(m[k]) /\ m[k][i] \in CallerHandlers})

\* callbacks.indexOf(callback): 0 stands for -1
IndexOf(s, x) ==
    IF \E i \in 1..Len(s) : s[i] = x
    THEN CHOOSE i \in 1..Len(s) : s[i] = x /\ \A j \in 1..(i - 1) : s[j] # x
    ELSE 0

\* callbacks.splice(index, 1)
Splice(s, i) == [j \in 1..(Len(s) - 1) |-> IF j < i THEN s[j] ELSE s[j + 1]]

Count(s, x) == Cardinality({i \in 1..Len(s) : s[i] = x})

VARIABLES
    \* WebSocketService
    ws,                 \* this.ws: 0 for null, else the channel it references
    chan,               \* readyState of every WebSocket object still of interest
    listeners,          \* this.listeners: event type -> array of callbacks
    reconnectAttempts,  \* this.reconnectAttempts
    reconnectTimers,    \* pending setTimeout(connect) callbacks, oldest first
    now,                \* the clock (Date.now()), in ms
    ticks,              \* advances of the clock so far
    \* Dashboard
    dashMounted, loading, fetchPending, dashboardData, capturedData, wsConnected,
    \* AlertBar
    alertBarMounted, alerts, isVisible, ttlTimers,
    \* observation of the last step
    lastOp,             \* the callback or call that ran last, with its input
    calls,              \* handler invocations made by the last step, in order,
                        \* each with the attempt counter the handler found
    dispatched,         \* notifyListeners calls made by the last step, in order
    console,            \* console.error lines written by the last step
    escaped,            \* the last step ended with an exception leaving it
    transmitted,        \* ws.send calls made by the last step, in order
    \* history
    scheduled,          \* reconnects scheduled since the counter was last 0
    ctorFailed,         \* new WebSocket() has thrown at least once
    afterDisconnect,    \* disconnect() was called and connect() not since
    everConnected,      \* new WebSocket() has returned at least once
    everOpened,         \* an open event was handled at least once
    dropped,            \* event types emptied by disconnect(), not subscribed since
    prevUnsub,          \* the unsubscribe(T, h) call right before the last step,
                        \* when that step dispatched an event of type T; again:
                        \* a handler subscribed h to T during that dispatch
    arrivals,           \* alert-class frames handled by AlertBar so far
    refused             \* a send was made while the channel was not open

serviceVars == <<ws, chan, listeners, reconnectAttempts, reconnectTimers>>

dashVars == <<dashMounted, loading, fetchPending, dashboardData, capturedData, wsConnected>>

alertVars == <<alertBarMounted, alerts, isVisible, ttlTimers, arrivals>>

obsVars == <<lastOp, calls, dispatched, console, escaped, transmitted>>

histVars == <<scheduled, ctorFailed, afterDisconnect, everConnected, everOpened,
             dropped, prevUnsub, refused>>

vars == <<serviceVars, now, ticks, dashVars, alertVars, obsVars, histVars>>

(***************************************************************************)
(* The program state as one value: every method below maps a state to the  *)
(* state it leaves behind.                                                 *)
(***************************************************************************)
Cur ==
    [ws |-> ws, chan |-> chan, listeners |-> listeners,
     reconnectAttempts |-> reconnectAttempts, reconnectTimers |-> reconnectTimers,
     now |-> now,
     dashMounted |-> dashMounted, loading |-> loading, fetchPending |-> fetchPending,
     dashboardData |-> dashboardData, capturedData |-> capturedData,
     wsConnected |-> wsConnected,
     alertBarMounted |-> alertBarMounted, alerts |-> alerts, isVisible |-> isVisible,
     ttlTimers |-> ttlTimers,
     calls |-> <<>>, dispatched |-> <<>>, console |-> <<>>, raised |-> FALSE,
     added |-> {}, transmitted |-> <<>>, returned |-> UNDEFINED,
     scheduled |-> scheduled, ctorFailed |-> ctorFailed,
     afterDisconnect |-> afterDisconnect, everConnected |-> everConnected,
     everOpened |-> everOpened, dropped |-> dropped,
     arrivals |-> arrivals, refused |-> refused]

\* a WebSocket object nothing refers to any more and that has fired its close
\* event is forgotten: its slot is free for the next new WebSocket()
Collect(st) ==
    [st EXCEPT !.chan = [c \in Channels |->
        IF st.chan[c] = "CLOSED" /\ c # st.ws THEN "FREE" ELSE st.chan[c]]]

NoCall == [op |-> "none"]

Commit(st, op) ==
    LET s == Collect(st) IN
    /\ ws' = s.ws
    /\ chan' = s.chan
    /\ listeners' = s.listeners
    /\ reconnectAttempts' = s.reconnectAttempts
    /\ reconnectTimers' = s.reconnectTimers
    /\ dashMounted' = s.dashMounted
    /\ loading' = s.loading
    /\ fetchPending' = s.fetchPending
    /\ dashboardData' = s.dashboardData
    /\ capturedData' = s.capturedData
    /\ wsConnected' = s.wsConnected
    /\ alertBarMounted' = s.alertBarMounted
    /\ alerts' = s.alerts
    /\ isVisible' = s.isVisible
    /\ ttlTimers' = s.ttlTimers
    /\ calls' = s.calls
    /\ dispatched' = s.dispatched
    /\ console' = s.console
    /\ escaped' = s.raised
    /\ transmitted' = s.transmitted
    /\ scheduled' = s.scheduled
    /\ ctorFailed' = s.ctorFailed
    /\ afterDisconnect' = s.afterDisconnect
    /\ everConnected' = s.everConnected
    /\ everOpened' = s.everOpened
    /\ dropped' = s.dropped
    /\ prevUnsub' = (IF lastOp.op = "unsubscribe" /\ s.dispatched # <<>>
                        /\ s.dispatched[1].type = lastOp.type
                     THEN [op |-> "unsubscribe", type |-> lastOp.type, h |-> lastOp.h,
                           had |-> lastOp.had,
                           again |-> <<lastOp.type, lastOp.h>> \in s.added]
                     ELSE NoCall)
    /\ arrivals' = s.arrivals
    /\ refused' = s.refused
    /\ lastOp' = op
    /\ CallerSubs(s.listeners) <= MaxSubs
    /\ UNCHANGED <<now, ticks>>

(***************************************************************************)
(* Subscription registry                                                   *)
(***************************************************************************)
\* faulty variant of subscribe: a callback already in the array is not pushed
subscribe_dedup(st, eventType, callback) ==
    LET m == IF eventType \in DOMAIN st.listeners
             THEN st.listeners
             ELSE st.listeners @@ (eventType :> <<>>)
    IN  [st EXCEPT !.listeners = IF IndexOf(m[eventType], callback) > 0
                                 THEN m
                                 ELSE [m EXCEPT ![eventType] = Append(@, callback)],
                   !.dropped = @ \ {eventType},
                   !.added = @ \cup {<<eventType, callback>>}]

\* WebSocketService.subscribe
subscribe(st, eventType, callback) ==
    LET m == IF eventType \in DOMAIN st.listeners
             THEN st.listeners
             ELSE st.listeners @@ (eventType :> <<>>)
    IN  [st EXCEPT !.listeners = [m EXCEPT ![eventType] = Append(@, callback)],
                   !.dropped = @ \ {eventType},
                   !.added = @ \cup {<<eventType, callback>>}]

\* faulty variant of unsubscribe: tests index > 0 on the 0-based index of the
\* source, so that the first entry of a type is never removed
unsubscribe_skipsFirst(st, eventType, callback) ==
    IF eventType \in DOMAIN st.listeners
    THEN LET callbacks == st.listeners[eventType]
             index == IndexOf(callbacks, callback)
         IN  IF index > 1
             THEN [st EXCEPT !.listeners[eventType] = Splice(callbacks, index)]
             ELSE st
    ELSE st

\* faulty variant of unsubscribe: lastIndexOf in place of indexOf
unsubscribe_removesLast(st, eventType, callback) ==
    IF eventType \in DOMAIN st.listeners
    THEN LET callbacks == st.listeners[eventType]
             matches == {i \in 1..Len(callbacks) : callbacks[i] = callback}
         IN  IF matches # {}
             THEN [st EXCEPT !.listeners[eventType] =
                      Splice(callbacks, CHOOSE i \in matches : \A j \in matches : j <= i)]
             ELSE st
    ELSE st

\* WebSocketService.unsubscribe
unsubscribe(st, eventType, callback) ==
    IF eventType \in DOMAIN st.listeners
    THEN LET callbacks == st.listeners[eventType]
             index == IndexOf(callbacks, callback)
         IN  IF index > 0
             THEN [st EXCEPT !.listeners[eventType] = Splice(callbacks, index)]
             ELSE st
    ELSE st

\* entries of callback under eventType
Entries(m, eventType, callback) ==
    IF eventType \in DOMAIN m THEN Count(m[eventType], callback) ELSE 0

(***************************************************************************)
(* Dashboard                                                               *)
(***************************************************************************)
\* useState(null): dashboardData of the first render
InitialDashboardData == NULL

\* the 'connection' subscriber of Dashboard
onConnection(st, data) ==
    [st EXCEPT !.wsConnected = (Get(data, "status") = "connected")]

\* prev.stocks.map(stock => stock.symbol === updatedStock.symbol ? {...} : stock)
MapStocks(stocks, updatedStock) ==
    [i \in 1..Len(stocks) |->
        IF stocks[i].symbol = Get(updatedStock, "symbol")
        THEN Spread(stocks[i], updatedStock)
        ELSE stocks[i]]

\* faulty variant of updateStockData: works on the state it is applied to and
\* adds an entry for a symbol the snapshot does not have
updateStockData_upsert(captured, prev, updatedStock) ==
    IF prev = NULL
    THEN prev
    ELSE IF \E i \in 1..Len(prev.stocks) :
                prev.stocks[i].symbol = Get(updatedStock, "symbol")
         THEN [prev EXCEPT !.stocks = MapStocks(prev.stocks, updatedStock)]
         ELSE [prev EXCEPT !.stocks = Append(@, updatedStock)]

\* faulty variant of updateStockData: no guard, a snapshot that is not loaded
\* is taken as one without stocks
updateStockData_defaultsEmpty(captured, prev, updatedStock) ==
    IF prev = NULL
    THEN [stocks |-> <<>>]
    ELSE [prev EXCEPT !.stocks = MapStocks(prev.stocks, updatedStock)]

\* faulty variant of updateStockData: the updater returns { stocks } without
\* spreading prev
updateStockData_dropsRest(captured, prev, updatedStock) ==
    IF captured = NULL
    THEN prev
    ELSE [stocks |-> MapStocks(prev.stocks, updatedStock)]

\* Dashboard.updateStockData, as the subscriber registered by the mount effect
\* sees it: dashboardData is the value of the render the effect ran in
\* (captured), prev is the state the functional updater is applied to
updateStockData(captured, prev, updatedStock) ==
    IF captured = NULL
    THEN prev
    ELSE [prev EXCEPT !.stocks = MapStocks(prev.stocks, updatedStock)]

\* the 'stock_update' subscriber of Dashboard
onStockUpdate(st, data) ==
    [st EXCEPT !.dashboardData = updateStockData(st.capturedData, @, data)]

(***************************************************************************)
(* AlertBar                                                                *)
(***************************************************************************)
NoFields == [f \in {} |-> 0]

\* faulty variant of Prepend: [newAlert, ...prev] without the slice
Prepend_unsliced(newAlert, prev) == <<newAlert>> \o prev

\* faulty variant of Prepend: [...prev, newAlert].slice(0, 5)
Prepend_keepsOldest(newAlert, prev) ==
    LET all == prev \o <<newAlert>>
    IN  SubSeq(all, 1, IF Len(all) < alertRetentionCount THEN Len(all)
                       ELSE alertRetentionCount)

\* [newAlert, ...prev].slice(0, 5)
Prepend(newAlert, prev) ==
    LET all == <<newAlert>> \o prev
    IN  SubSeq(all, 1, IF Len(all) < alertRetentionCount THEN Len(all)
                       ELSE alertRetentionCount)

\* prev.filter(a => a.id !== id)
FilterOut(prev, id) == SelectSeq(prev, LAMBDA a : a.id # id)

\* faulty variant of handleAlert: setIsVisible(true) is missing
handleAlert_staysHidden(st, data) ==
    IF Get(data, "type") = "alert" \/ Get(data, "type") = "rule_alert"
    THEN LET payload == IF "data" \in DOMAIN data THEN data.data ELSE NoFields
             newAlert == Spread(Spread([id |-> st.now], payload),
                                [timestamp |-> st.now])
         IN  [st EXCEPT !.alerts = Prepend(newAlert, @),
                        !.ttlTimers = Append(@, [id |-> newAlert.id,
                                                 due |-> st.now + alertTtlMs]),
                        !.arrivals = @ + 1]
    ELSE st

\* AlertBar.handleAlert
handleAlert(st, data) ==
    IF Get(data, "type") = "alert" \/ Get(data, "type") = "rule_alert"
    THEN LET payload == IF "data" \in DOMAIN data THEN data.data ELSE NoFields
             newAlert == Spread(Spread([id |-> st.now], payload),
                                [timestamp |-> st.now])
         IN  [st EXCEPT !.alerts = Prepend(newAlert, @),
                        !.isVisible = TRUE,
                        !.ttlTimers = Append(@, [id |-> newAlert.id,
                                                 due |-> st.now + alertTtlMs]),
                        !.arrivals = @ + 1]
    ELSE st

\* faulty variant of the timer callback: the filter keeps the alert
expireAlert_keeps(st, id) == [st EXCEPT !.alerts = SelectSeq(@, LAMBDA a : a.id = id)]

\* the setTimeout callback of handleAlert
expireAlert(st, id) == [st EXCEPT !.alerts = FilterOut(@, id)]

\* AlertBar.removeAlert
removeAlert(st, id) == [st EXCEPT !.alerts = FilterOut(@, id)]

\* what AlertBar renders: null under "!isVisible || alerts.length === 0", the
\* feed otherwise
feedShown(st) ==
    st.alertBarMounted /\ ~(~st.isVisible \/ Len(st.alerts) = 0)

(***************************************************************************)
(* Fan-out                                                                 *)
(***************************************************************************)
\* callback(data) for every kind of callback of the model
Invoke(st, h, eventType, data) ==
    LET s == [st EXCEPT !.calls = Append(@, [h |-> h, type |-> eventType,
                                             data |-> data,
                                             attempts |-> st.reconnectAttempts])]
    IN  CASE h = "onConnection" -> onConnection(s, data)
          [] h = "onStockUpdate" -> onStockUpdate(s, data)
          [] h = "handleAlert" -> handleAlert(s, data)
          [] h = "hThrow" -> [s EXCEPT !.raised = TRUE]
          [] h = "hUnsub" -> unsubscribe(s, eventType, "hUnsub")
          [] h = "hSub" -> subscribe(s, eventType, "hA")
          [] OTHER -> s

\* faulty variant of ForEach: no try/catch around the callback, so that the
\* first callback to raise ends the loop and the exception leaves it
RECURSIVE ForEach_uncaught(_, _, _, _, _)
ForEach_uncaught(st, eventType, data, i, n) ==
    IF i > n THEN st
    ELSE IF i > Len(st.listeners[eventType])
         THEN ForEach_uncaught(st, eventType, data, i + 1, n)
         ELSE LET r == Invoke(st, st.listeners[eventType][i], eventType, data)
              IN  IF r.raised THEN r
                  ELSE ForEach_uncaught(r, eventType, data, i + 1, n)

\* Array.prototype.forEach over the live array: the range is fixed when the
\* loop starts, an index the array no longer has is skipped, and the element
\* read is the one at that index when its turn comes.  Each callback runs in
\* its own try/catch.
RECURSIVE ForEach(_, _, _, _, _)
ForEach(st, eventType, data, i, n) ==
    IF i > n THEN st
    ELSE IF i > Len(st.listeners[eventType])
         THEN ForEach(st, eventType, data, i + 1, n)
         ELSE LET r == Invoke(st, st.listeners[eventType][i], eventType, data)
                  caught == IF r.raised
                        THEN [r EXCEPT !.raised = FALSE,
                                       !.console = Append(@, "Error in WebSocket listener:")]
                        ELSE r
              IN  ForEach(caught, eventType, data, i + 1, n)

\* faulty variant of notifyListeners: the loop stops one entry short
notifyListeners_missesLast(st, eventType, data) ==
    LET s == [st EXCEPT !.dispatched = Append(@, [type |-> eventType,
                                                   data |-> data])]
    IN  IF eventType \in DOMAIN s.listeners
        THEN ForEach(s, eventType, data, 1, Len(s.listeners[eventType]) - 1)
        ELSE s

\* WebSocketService.notifyListeners
notifyListeners(st, eventType, data) ==
    LET s == [st EXCEPT !.dispatched = Append(@, [type |-> eventType,
                                                   data |-> data])]
    IN  IF eventType \in DOMAIN s.listeners
        THEN ForEach(s, eventType, data, 1, Len(s.listeners[eventType]))
        ELSE s

(***************************************************************************)
(* Connection manager                                                      *)
(***************************************************************************)
\* slots a new WebSocket object can take: this.ws is about to be overwritten,
\* so the closed socket it may still reference is forgotten too
FreeChannels(st) == {c \in Channels : st.chan[c] \in {"FREE", "CLOSED"}}

\* connections under way: sockets that have not fired their close event, and
\* reconnects that are scheduled
Chains(st) ==
    Cardinality({c \in Channels : st.chan[c] \notin {"FREE", "CLOSED"}})
        + Len(st.reconnectTimers)

\* faulty variant of connect: every connection starts with a new Map of
\* listeners
connect_freshRegistry(st, throws) ==
    IF throws
    THEN [st EXCEPT !.console = Append(@, "Failed to connect WebSocket:"),
                    !.ctorFailed = TRUE]
    ELSE LET c == CHOOSE x \in FreeChannels(st) : \A y \in FreeChannels(st) : x <= y
         IN  [st EXCEPT !.ws = c, !.chan[c] = "CONNECTING", !.everConnected = TRUE,
                        !.listeners = EmptyMap]

\* WebSocketService.connect; throws: new WebSocket() raises
connect(st, throws) ==
    IF throws
    THEN [st EXCEPT !.console = Append(@, "Failed to connect WebSocket:"),
                    !.ctorFailed = TRUE]
    ELSE LET c == CHOOSE x \in FreeChannels(st) : \A y \in FreeChannels(st) : x <= y
         IN  [st EXCEPT !.ws = c, !.chan[c] = "CONNECTING", !.everConnected = TRUE]

\* faulty variant of onopen: the attempt counter is left as it is
onopen_keepsCounter(st) ==
    notifyListeners([st EXCEPT !.everOpened = TRUE],
                    "connection", [status |-> "connected"])

\* ws.onopen
onopen(st) ==
    notifyListeners([st EXCEPT !.reconnectAttempts = 0, !.scheduled = 0,
                               !.everOpened = TRUE],
                    "connection", [status |-> "connected"])

\* JSON.parse(event.data) followed by the read of data.type: a frame is its
\* text, of which the model keeps what the parser makes of it
JSONparse(frame) ==
    CASE frame.text = "garbage" -> [threw |-> TRUE]
      [] frame.text = "null" -> [threw |-> FALSE, isNull |-> TRUE]
      [] frame.text = "42" -> [threw |-> FALSE, isNull |-> FALSE, value |-> NoFields]
      [] OTHER -> [threw |-> FALSE, isNull |-> FALSE, value |-> frame.value]

\* faulty variant of onmessage: no try/catch around the decoding
onmessage_uncaught(st, frame) ==
    LET parsed == JSONparse(frame)
    IN  IF parsed.threw \/ parsed.isNull
        THEN [st EXCEPT !.raised = TRUE]
        ELSE notifyListeners(st, Get(parsed.value, "type"), parsed.value)

\* faulty variant of onmessage: an envelope is dispatched only when its type is
\* one the application knows
onmessage_knownTypesOnly(st, frame) ==
    LET parsed == JSONparse(frame)
    IN  IF parsed.threw \/ parsed.isNull
        THEN [st EXCEPT !.console = Append(@, "Error parsing WebSocket message:")]
        ELSE IF Get(parsed.value, "type")
                   \in {"connection", "stock_update", "alert", "rule_alert"}
             THEN notifyListeners(st, Get(parsed.value, "type"), parsed.value)
             ELSE st

\* ws.onmessage
onmessage(st, frame) ==
    LET parsed == JSONparse(frame)
    IN  IF parsed.threw \/ parsed.isNull
        THEN [st EXCEPT !.console = Append(@, "Error parsing WebSocket message:")]
        ELSE notifyListeners(st, Get(parsed.value, "type"), parsed.value)

\* faulty variant of onerror: the error is handled as the loss of the channel
onerror_closes(st) ==
    LET s == notifyListeners([st EXCEPT !.console = Append(@, "WebSocket error:")],
                             "connection", [status |-> "disconnected"])
    IN  IF s.reconnectAttempts < maxReconnectAttempts
        THEN [s EXCEPT !.reconnectAttempts = @ + 1,
                       !.scheduled = @ + 1,
                       !.reconnectTimers = Append(@, [due |-> s.now + reconnectDelay,
                                                      setAt |-> s.now])]
        ELSE [s EXCEPT !.console = Append(@, "Max reconnection attempts reached")]

\* ws.onerror
onerror(st) ==
    notifyListeners([st EXCEPT !.console = Append(@, "WebSocket error:")],
                    "error", [error |-> "Event"])

\* faulty variant of attemptReconnect: counts the attempt before the test, as
\* in "increment, then schedule if attempts < max"
attemptReconnect_countsFirst(st) ==
    IF st.reconnectAttempts + 1 < maxReconnectAttempts
    THEN [st EXCEPT !.reconnectAttempts = @ + 1,
                    !.scheduled = @ + 1,
                    !.reconnectTimers = Append(@, [due |-> st.now + reconnectDelay,
                                                   setAt |-> st.now])]
    ELSE [st EXCEPT !.reconnectAttempts = @ + 1,
                    !.console = Append(@, "Max reconnection attempts reached")]

\* faulty variant of attemptReconnect: tests attempts <= max
attemptReconnect_offByOne(st) ==
    IF st.reconnectAttempts <= maxReconnectAttempts
    THEN [st EXCEPT !.reconnectAttempts = @ + 1,
                    !.scheduled = @ + 1,
                    !.reconnectTimers = Append(@, [due |-> st.now + reconnectDelay,
                                                   setAt |-> st.now])]
    ELSE [st EXCEPT !.console = Append(@, "Max reconnection attempts reached")]

\* faulty variant of attemptReconnect: no test of the budget
attemptReconnect_unbounded(st) ==
    [st EXCEPT !.reconnectAttempts = @ + 1,
               !.scheduled = @ + 1,
               !.reconnectTimers = Append(@, [due |-> st.now + reconnectDelay,
                                              setAt |-> st.now])]

\* WebSocketService.attemptReconnect
attemptReconnect(st) ==
    IF st.reconnectAttempts < maxReconnectAttempts
    THEN [st EXCEPT !.reconnectAttempts = @ + 1,
                    !.scheduled = @ + 1,
                    !.reconnectTimers = Append(@, [due |-> st.now + reconnectDelay,
                                                   setAt |-> st.now])]
    ELSE [st EXCEPT !.console = Append(@, "Max reconnection attempts reached")]

\* faulty variant of onclose: the reconnect policy runs before the dispatch
onclose_reconnectsFirst(st) ==
    notifyListeners(attemptReconnect(st), "connection", [status |-> "disconnected"])

\* ws.onclose
onclose(st) ==
    attemptReconnect(notifyListeners(st, "connection", [status |-> "disconnected"]))

\* WebSocket.close(): nothing on a socket already closing or closed
close(st, c) ==
    IF st.chan[c] \in {"CONNECTING", "OPEN"}
    THEN [st EXCEPT !.chan[c] = "CLOSING"]
    ELSE st

\* faulty variant of disconnect: this.ws.close() without the test of this.ws,
\* which raises when there is no socket
disconnect_unguarded(st) ==
    IF st.ws # 0
    THEN [[close(st, st.ws) EXCEPT !.ws = 0]
             EXCEPT !.listeners = EmptyMap, !.afterDisconnect = TRUE,
                    !.dropped = @ \cup {t \in DOMAIN st.listeners :
                                              st.listeners[t] # <<>>}]
    ELSE [st EXCEPT !.raised = TRUE]

\* faulty variant of disconnect: closes the socket and keeps the registry
disconnect_keepsListeners(st) ==
    LET s == IF st.ws # 0 THEN [close(st, st.ws) EXCEPT !.ws = 0] ELSE st
    IN  [s EXCEPT !.afterDisconnect = TRUE,
                  !.dropped = @ \cup {t \in DOMAIN st.listeners : st.listeners[t] # <<>>}]

\* WebSocketService.disconnect
disconnect(st) ==
    LET s == IF st.ws # 0 THEN [close(st, st.ws) EXCEPT !.ws = 0] ELSE st
    IN  [s EXCEPT !.listeners = EmptyMap, !.afterDisconnect = TRUE,
                  !.dropped = @ \cup {t \in DOMAIN st.listeners : st.listeners[t] # <<>>}]

\* faulty variant of send: tests this.ws alone, not its readyState
send_anyState(st, data) ==
    IF st.ws # 0
    THEN [st EXCEPT !.transmitted = Append(@, [c |-> st.ws, data |-> data])]
    ELSE [st EXCEPT !.console = Append(@, "WebSocket is not connected")]

\* WebSocketService.send: the method has no return statement
send(st, data) ==
    IF st.ws # 0 /\ st.chan[st.ws] = "OPEN"
    THEN [st EXCEPT !.transmitted = Append(@, [c |-> st.ws, data |-> data])]
    ELSE [st EXCEPT !.console = Append(@, "WebSocket is not connected"),
                    !.refused = TRUE]

\* WebSocketService.isConnected
isConnected(st) == st.ws # 0 /\ st.chan[st.ws] = "OPEN"

(***************************************************************************)
(* Component lifecycles                                                    *)
(***************************************************************************)
\* the effect of AlertBar: runs when the component mounts
alertBarMount(st) ==
    LET s == [st EXCEPT !.alertBarMounted = TRUE, !.alerts = <<>>, !.isVisible = FALSE]
    IN  subscribe(subscribe(s, "alert", "handleAlert"), "rule_alert", "handleAlert")

\* the cleanup of AlertBar's effect; the timers of the unmounted instance set
\* the state of a component that no longer exists, which does nothing
alertBarUnmount(st) ==
    LET s == unsubscribe(unsubscribe(st, "alert", "handleAlert"),
                         "rule_alert", "handleAlert")
    IN  [s EXCEPT !.alertBarMounted = FALSE, !.alerts = <<>>, !.isVisible = FALSE,
                  !.ttlTimers = <<>>]

\* the effect of Dashboard: runs once, after the first render
dashboardMount(st, throws) ==
    LET s0 == [st EXCEPT !.dashMounted = TRUE, !.loading = TRUE,
                         !.dashboardData = InitialDashboardData,
                         !.capturedData = InitialDashboardData,
                         !.wsConnected = FALSE, !.fetchPending = TRUE]
        s1 == [connect(s0, throws) EXCEPT !.afterDisconnect = throws /\ @]
    IN  subscribe(subscribe(s1, "connection", "onConnection"),
                  "stock_update", "onStockUpdate")

\* Dashboard.fetchDashboardData, from the answer of the REST layer on
fetchResolved(st, response) ==
    LET s0 == IF response.status = "success"
              THEN [st EXCEPT !.dashboardData = response.data]
              ELSE st
        s1 == [s0 EXCEPT !.loading = FALSE, !.fetchPending = FALSE]
    IN  IF s1.alertBarMounted THEN s1 ELSE alertBarMount(s1)

\* the Refresh button: fetchDashboardData up to its await
refresh(st) ==
    LET s == [st EXCEPT !.loading = TRUE, !.fetchPending = TRUE]
    IN  IF s.alertBarMounted THEN alertBarUnmount(s) ELSE s

\* the cleanups that run when Dashboard unmounts
dashboardUnmount(st) ==
    LET s0 == IF st.alertBarMounted THEN alertBarUnmount(st) ELSE st
        s1 == disconnect(s0)
    IN  [s1 EXCEPT !.dashMounted = FALSE, !.fetchPending = FALSE, !.loading = TRUE,
                   !.dashboardData = NULL, !.capturedData = NULL,
                   !.wsConnected = FALSE]

(***************************************************************************)
(* Inputs                                                                  *)
(***************************************************************************)
Object(v) == [text |-> "object", value |-> v]

\* frames that do not decode to an envelope
BadFrames == {[text |-> "garbage"], [text |-> "null"], [text |-> "42"]}

\* payloads a caller hands to send
Payloads == {[action |-> "subscribe", symbol |-> "AAPL"], [action |-> "ping"]}

\* event types a caller of the service subscribes to
CallerTypes == {"connection", "quote"}

CallerFrames ==
    {Object([type |-> "quote", data |-> [n |-> 1]]),
     Object([type |-> "connection", data |-> [status |-> "connected"]]),
     Object([type |-> "news"])}

StockFrames ==
    {Object([type |-> "stock_update", data |-> [symbol |-> "AAPL", price |-> 105]]),
     Object([type |-> "stock_update", data |-> [symbol |-> "ZZZZ", price |-> 50]]),
     Object([type |-> "stock_update", symbol |-> "AAPL", price |-> 105]),
     Object([type |-> "stock_update", symbol |-> "ZZZZ", price |-> 50])}

AlertFrames ==
    {Object([type |-> "alert", data |-> [symbol |-> "AAPL", message |-> "above 100"]]),
     Object([type |-> "rule_alert",
             data |-> [symbol |-> "AAPL", message |-> "above 100"]])}

\* alert-class frames whose payload has an id of its own, as the alerts of a
\* rule have when the peer sends the rule's id along
IdAlertFrames ==
    {Object([type |-> "rule_alert",
             data |-> [id |-> 7, symbol |-> "AAPL", message |-> "above 100"]])}

\* the k-th envelope of a burst of distinct alerts, under either alert type
NumberedAlertFrames ==
    {Object([type |-> t, data |-> [symbol |-> "AAPL", message |-> k]]) :
        t \in {"alert", "rule_alert"}, k \in 1..MaxBurst}

Snapshot ==
    [stocks |-> <<[symbol |-> "AAPL", price |-> 100, volume |-> 1000],
                  [symbol |-> "MSFT", price |-> 300, volume |-> 2000]>>,
     summary |-> [total_stocks |-> 2]]

FetchResponses == {[status |-> "success", data |-> Snapshot], [status |-> "error"]}

(***************************************************************************)
(* Initial state: the module was loaded, nothing is mounted                *)
(***************************************************************************)
Init ==
    /\ ws = 0
    /\ chan = [c \in Channels |-> "FREE"]
    /\ listeners = EmptyMap
    /\ reconnectAttempts = 0
    /\ reconnectTimers = <<>>
    /\ now = 0
    /\ ticks = 0
    /\ dashMounted = FALSE
    /\ loading = TRUE
    /\ fetchPending = FALSE
    /\ dashboardData = NULL
    /\ capturedData = NULL
    /\ wsConnected = FALSE
    /\ alertBarMounted = FALSE
    /\ alerts = <<>>
    /\ isVisible = FALSE
    /\ ttlTimers = <<>>
    /\ lastOp = [op |-> "init"]
    /\ calls = <<>>
    /\ dispatched = <<>>
    /\ console = <<>>
    /\ escaped = FALSE
    /\ transmitted = <<>>
    /\ scheduled = 0
    /\ ctorFailed = FALSE
    /\ afterDisconnect = FALSE
    /\ everConnected = FALSE
    /\ everOpened = FALSE
    /\ dropped = {}
    /\ prevUnsub = NoCall
    /\ arrivals = 0
    /\ refused = FALSE

(***************************************************************************)
(* Actions: calls of the public operations                                 *)
(***************************************************************************)
Connect(throws) ==
    /\ Chains(Cur) < MaxChannels
    /\ Commit([connect(Cur, throws) EXCEPT !.afterDisconnect = throws /\ @],
              [op |-> "connect", threw |-> throws])

Disconnect ==
    Commit(disconnect(Cur), [op |-> "disconnect", had |-> TotalSubs(listeners),
                             again |-> (lastOp.op = "disconnect")])

Subscribe(eventType, callback) ==
    Commit(subscribe(Cur, eventType, callback),
           [op |-> "subscribe", type |-> eventType, h |-> callback])

Unsubscribe(eventType, callback) ==
    Commit(unsubscribe(Cur, eventType, callback),
           [op |-> "unsubscribe", type |-> eventType, h |-> callback,
            had |-> Entries(listeners, eventType, callback)])

Send(data) ==
    LET r == send(Cur, data)
    IN  Commit(r, [op |-> "send", data |-> data, connected |-> isConnected(Cur),
                   returned |-> r.returned])

(***************************************************************************)
(* Actions: events of a WebSocket object                                   *)
(***************************************************************************)
ChannelOpen(c) ==
    /\ chan[c] = "CONNECTING"
    /\ Commit(onopen([Cur EXCEPT !.chan[c] = "OPEN"]),
              [op |-> "onopen", c |-> c, was |-> reconnectAttempts])

ChannelMessage(c, frame) ==
    /\ chan[c] = "OPEN"
    /\ Commit(onmessage(Cur, frame), [op |-> "onmessage", c |-> c, frame |-> frame])

\* the connection failed: the socket is closed, its error event fires and its
\* close event follows
ChannelError(c) ==
    /\ chan[c] \in {"CONNECTING", "OPEN", "CLOSING"}
    /\ Commit(onerror([Cur EXCEPT !.chan[c] = "FAILED"]), [op |-> "onerror", c |-> c])

ChannelClose(c) ==
    /\ chan[c] \in {"CONNECTING", "OPEN", "CLOSING", "FAILED"}
    /\ Commit(onclose([Cur EXCEPT !.chan[c] = "CLOSED"]), [op |-> "onclose", c |-> c])

(***************************************************************************)
(* Actions: timers and the clock                                           *)
(***************************************************************************)
\* the setTimeout callback of attemptReconnect
ReconnectTimer(throws) ==
    /\ reconnectTimers # <<>>
    /\ Head(reconnectTimers).due <= now
    /\ Commit(connect([Cur EXCEPT !.reconnectTimers = Tail(@)], throws),
              [op |-> "reconnectTimer", threw |-> throws,
               late |-> now - Head(reconnectTimers).setAt])

\* the setTimeout callback of handleAlert
TtlTimer ==
    /\ ttlTimers # <<>>
    /\ Head(ttlTimers).due <= now
    /\ Commit(expireAlert([Cur EXCEPT !.ttlTimers = Tail(@)], Head(ttlTimers).id),
              [op |-> "ttlTimer", id |-> Head(ttlTimers).id])

Dues == {reconnectTimers[i].due : i \in 1..Len(reconnectTimers)}
            \cup {ttlTimers[i].due : i \in 1..Len(ttlTimers)}

\* the clock advances; a timer fires at the instant it is due
Tick(d) ==
    /\ ticks < MaxTicks
    /\ d > 0
    /\ \A t \in Dues : now + d <= t
    /\ now' = now + d
    /\ ticks' = ticks + 1
    /\ lastOp' = [op |-> "tick"]
    /\ calls' = <<>>
    /\ dispatched' = <<>>
    /\ console' = <<>>
    /\ escaped' = FALSE
    /\ transmitted' = <<>>
    /\ prevUnsub' = NoCall
    /\ UNCHANGED <<serviceVars, dashVars, alertVars, scheduled, ctorFailed,
                   afterDisconnect, everConnected, everOpened, dropped, refused>>

(***************************************************************************)
(* Actions: the components                                                 *)
(***************************************************************************)
DashboardMount(throws) ==
    /\ ~dashMounted
    /\ Chains(Cur) < MaxChannels
    /\ Commit(dashboardMount(Cur, throws), [op |-> "mount", threw |-> throws])

FetchResolved(response) ==
    /\ dashMounted
    /\ fetchPending
    /\ Commit(fetchResolved(Cur, response), [op |-> "fetched"])

Refresh ==
    /\ dashMounted
    /\ ~loading
    /\ Commit(refresh(Cur), [op |-> "refresh"])

DashboardUnmount ==
    /\ dashMounted
    /\ Commit(dashboardUnmount(Cur), [op |-> "unmount"])

\* the X button of an alert that is on screen
Dismiss(id) ==
    /\ alertBarMounted
    /\ isVisible
    /\ \E i \in 1..Len(alerts) : alerts[i].id = id
    /\ Commit(removeAlert(Cur, id), [op |-> "dismiss", id |-> id])

(***************************************************************************)
(* Specifications                                                          *)
(***************************************************************************)
ChannelEvents ==
    \/ \E c \in Channels : ChannelOpen(c)
    \/ \E c \in Channels : ChannelError(c)
    \/ \E c \in Channels : ChannelClose(c)

\* the connection manager under a caller that connects and disconnects at
\* will, observed by one 'connection' subscriber
NextConn ==
    \/ \E throws \in BOOLEAN : Connect(throws)
    \/ Disconnect
    \/ Subscribe("connection", "hA")
    \/ ChannelEvents
    \/ \E throws \in BOOLEAN : ReconnectTimer(throws)
    \/ \E d \in {t - now : t \in Dues} : Tick(d)

SpecConn == Init /\ [][NextConn]_vars

\* the registry under a caller that subscribes and unsubscribes at will, fed
\* by the events of one connection
NextRegistry ==
    \/ (Chains(Cur) = 0 /\ Connect(FALSE))
    \/ Disconnect
    \/ \E t \in CallerTypes, h \in CallerHandlers : Subscribe(t, h)
    \/ \E t \in CallerTypes, h \in CallerHandlers : Unsubscribe(t, h)
    \/ \E c \in Channels : ChannelOpen(c)
    \/ \E c \in Channels : ChannelClose(c)
    \/ \E c \in Channels, f \in CallerFrames \cup BadFrames : ChannelMessage(c, f)

Spec == Init /\ [][NextRegistry]_vars

\* the application: Dashboard over the service, fed with price updates
NextDash ==
    \/ \E throws \in BOOLEAN : DashboardMount(throws)
    \/ \E r \in FetchResponses : FetchResolved(r)
    \/ Refresh
    \/ DashboardUnmount
    \/ ChannelEvents
    \/ \E c \in Channels, f \in StockFrames : ChannelMessage(c, f)
    \/ \E throws \in BOOLEAN : ReconnectTimer(throws)
    \/ \E d \in {t - now : t \in Dues} : Tick(d)

SpecDash == Init /\ [][NextDash]_vars

\* the application: AlertBar inside Dashboard, fed with alerts over a
\* connection that stays up, under the clock.  The clock stands still while no
\* timer is pending: the instant of the first alert is then 0, and every other
\* run is this one shifted in time.
NextAlert ==
    \/ DashboardMount(FALSE)
    \/ \E r \in FetchResponses : FetchResolved(r)
    \/ Refresh
    \/ DashboardUnmount
    \/ \E c \in Channels : ChannelOpen(c)
    \/ \E c \in Channels, f \in AlertFrames :
          (arrivals < MaxAlerts /\ ChannelMessage(c, f))
    \/ TtlTimer
    \/ \E id \in {alerts[i].id : i \in 1..Len(alerts)} : Dismiss(id)
    \/ \E d \in {1} \cup {t - now : t \in Dues} :
          (ticks < MaxClockSteps /\ Dues # {} /\ Tick(d))

SpecAlert == Init /\ [][NextAlert]_vars

\* the connection manager under a caller that sends at will
NextSend ==
    \/ Connect(FALSE)
    \/ Disconnect
    \/ ChannelEvents
    \/ ReconnectTimer(FALSE)
    \/ \E d \in {t - now : t \in Dues} : Tick(d)
    \/ \E data \in Payloads : Send(data)

SpecSend == Init /\ [][NextSend]_vars

\* event types and handlers of a caller that stays subscribed across the loss
\* of the connection
FailoverTypes == {"error", "quote"}

\* the frame the peer sends to such a caller
FailoverFrames == {Object([type |-> "quote", data |-> [n |-> 1]])}

FailoverHandlers == {"hA", "hThrow"}

\* the service under a caller that subscribes, connects once and lets the
\* manager reconnect by itself when the channel is lost
NextFailover ==
    \/ (Chains(Cur) = 0 /\ Connect(FALSE))
    \/ Disconnect
    \/ \E t \in FailoverTypes, h \in FailoverHandlers : Subscribe(t, h)
    \/ \E t \in FailoverTypes, h \in FailoverHandlers : Unsubscribe(t, h)
    \/ ChannelEvents
    \/ \E c \in Channels, f \in FailoverFrames : ChannelMessage(c, f)
    \/ ReconnectTimer(FALSE)
    \/ \E d \in {t - now : t \in Dues} : (ticks < MaxClockSteps /\ Tick(d))

SpecFailover == Init /\ [][NextFailover]_vars

\* StockViews and snapshots updateStockData is applied to
MaxStocks == 2

StockViews ==
    [symbol : {"AAPL", "MSFT"}, price : {100, 300}, volume : {1000}]

ReconcileSnapshots ==
    {NULL} \cup
    {[stocks |-> s, summary |-> [total_stocks |-> Len(s)]] :
        s \in UNION {[1..n -> StockViews] : n \in 0..MaxStocks}}

\* the objects handed to updateStockData: partial updates of a known and of an
\* unknown symbol, an update with a field the views do not have, an envelope
ReconcileUpdates ==
    {[symbol |-> "AAPL", price |-> 105],
     [symbol |-> "MSFT", price |-> 305, change |-> 5],
     [symbol |-> "ZZZZ", price |-> 50],
     [type |-> "stock_update", data |-> [symbol |-> "AAPL", price |-> 105]]}

\* updateStockData as a function: called from a render that has the snapshot
\* it is applied to
Reconcile(updatedStock) ==
    Commit([Cur EXCEPT !.dashboardData = updateStockData(@, @, updatedStock),
                       !.capturedData = updateStockData(@, @, updatedStock)],
           [op |-> "reconcile", update |-> updatedStock])

InitReconcile ==
    /\ ws = 0
    /\ chan = [c \in Channels |-> "FREE"]
    /\ listeners = EmptyMap
    /\ reconnectAttempts = 0
    /\ reconnectTimers = <<>>
    /\ now = 0
    /\ ticks = 0
    /\ dashMounted = FALSE
    /\ loading = TRUE
    /\ fetchPending = FALSE
    /\ dashboardData \in ReconcileSnapshots
    /\ capturedData = dashboardData
    /\ wsConnected = FALSE
    /\ alertBarMounted = FALSE
    /\ alerts = <<>>
    /\ isVisible = FALSE
    /\ ttlTimers = <<>>
    /\ lastOp = [op |-> "init"]
    /\ calls = <<>>
    /\ dispatched = <<>>
    /\ console = <<>>
    /\ escaped = FALSE
    /\ transmitted = <<>>
    /\ scheduled = 0
    /\ ctorFailed = FALSE
    /\ afterDisconnect = FALSE
    /\ everConnected = FALSE
    /\ everOpened = FALSE
    /\ dropped = {}
    /\ prevUnsub = NoCall
    /\ arrivals = 0
    /\ refused = FALSE

NextReconcile == \E u \in ReconcileUpdates : Reconcile(u)

SpecReconcile == InitReconcile /\ [][NextReconcile]_vars

\* the clock reaches the next pending timer
NextDue == \E d \in {t - now : t \in Dues} : Tick(d)

\* a socket that is not open gets its next event: it opens, fails or closes
Settles ==
    \E c \in Channels :
       /\ chan[c] # "OPEN"
       /\ (ChannelOpen(c) \/ ChannelError(c) \/ ChannelClose(c))

\* the peer drops a connection that is established: in the runs considered it
\* does so to the first connection only, which opens before the clock moves
Drops ==
    \E c \in Channels :
       /\ chan[c] = "OPEN"
       /\ now = 0
       /\ (ChannelError(c) \/ ChannelClose(c))

\* the manager after one connect() of a caller who observes 'connection': the
\* browser delivers the events of every socket, runs the timers that are due,
\* and time passes
NextReconnect ==
    \/ (~everConnected /\ Connect(FALSE))
    \/ (TotalSubs(listeners) = 0 /\ Subscribe("connection", "hA"))
    \/ Settles
    \/ Drops
    \/ \E throws \in BOOLEAN : ReconnectTimer(throws)
    \/ NextDue

SpecReconnect ==
    /\ Init
    /\ [][NextReconnect]_vars
    /\ WF_vars(Settles)
    /\ WF_vars(\E throws \in BOOLEAN : ReconnectTimer(throws))
    /\ WF_vars(NextDue)

\* AlertBar while it stays mounted, under a clock that never stops short of a
\* pending timer: a step of 1 ms is taken only while enough advances of the
\* clock remain for every timer, pending or to come, to become due.  The
\* event loop runs a timer that is due, and time passes.
NextAlertLive ==
    \/ DashboardMount(FALSE)
    \/ \E r \in FetchResponses : FetchResolved(r)
    \/ \E c \in Channels : ChannelOpen(c)
    \/ \E c \in Channels, f \in AlertFrames :
          (arrivals < MaxLiveAlerts /\ ChannelMessage(c, f))
    \/ TtlTimer
    \/ \E id \in {alerts[i].id : i \in 1..Len(alerts)} : Dismiss(id)
    \/ NextDue
    \/ (/\ Dues # {}
        /\ ticks + Len(ttlTimers) + (MaxLiveAlerts - arrivals) < MaxTicks
        /\ Tick(1))

SpecAlertLive ==
    Init /\ [][NextAlertLive]_vars /\ WF_vars(TtlTimer) /\ WF_vars(NextDue)

\* AlertBar fed with alerts of one rule, which carry the rule's id
NextAlertIds ==
    \/ DashboardMount(FALSE)
    \/ \E r \in FetchResponses : FetchResolved(r)
    \/ \E c \in Channels : ChannelOpen(c)
    \/ \E c \in Channels, f \in IdAlertFrames :
          (arrivals < MaxLiveAlerts /\ ChannelMessage(c, f))
    \/ TtlTimer
    \/ \E id \in {alerts[i].id : i \in 1..Len(alerts)} : Dismiss(id)
    \/ \E d \in {1} \cup {t - now : t \in Dues} :
          (ticks < MaxClockSteps /\ Dues # {} /\ Tick(d))

SpecAlertIds == Init /\ [][NextAlertIds]_vars

\* AlertBar under a burst of distinct alerts: the k-th frame handled carries
\* message k; no TTL timer fires and nothing is dismissed
NextBurst ==
    \/ DashboardMount(FALSE)
    \/ \E r \in FetchResponses : FetchResolved(r)
    \/ \E c \in Channels : ChannelOpen(c)
    \/ \E c \in Channels, f \in NumberedAlertFrames :
          (f.value.data.message = arrivals + 1 /\ ChannelMessage(c, f))
    \/ (ticks < MaxClockSteps /\ Tick(1))

SpecBurst == Init /\ [][NextBurst]_vars

(***************************************************************************)
(* Properties                                                              *)
(***************************************************************************)
HandlersOf(cs) == [i \in 1..Len(cs) |-> cs[i].h]

Registered(m, eventType) == IF eventType \in DOMAIN m THEN m[eventType] ELSE <<>>

Range(seq) == {seq[i] : i \in 1..Len(seq)}

\* no connection is under way: every socket has fired its close event and no
\* reconnect is scheduled
Quiescent == Chains(Cur) = 0

\* the last step ran attemptReconnect and it gave up
GaveUp == \E i \in 1..Len(console) : console[i] = "Max reconnection attempts reached"

\* C1: when every socket created by connect() closes without having opened,
\* starting from a counter of 0, exactly maxReconnectAttempts reconnects are
\* scheduled, each with the fixed delay, and never a 6th
C1_FiveReconnectsThenStop ==
    /\ scheduled <= maxReconnectAttempts
    /\ \A i \in 1..Len(reconnectTimers) :
          reconnectTimers[i].due = reconnectTimers[i].setAt + reconnectDelay
    /\ (lastOp.op = "reconnectTimer") => (lastOp.late = reconnectDelay)
    /\ (~everOpened) => (scheduled = reconnectAttempts)
    /\ (everConnected /\ ~everOpened /\ ~ctorFailed /\ Quiescent)
          => (scheduled = maxReconnectAttempts)

C1_Witness ==
    /\ everConnected /\ ~everOpened /\ ~ctorFailed /\ Quiescent
    /\ lastOp.op = "onclose"
    /\ scheduled = maxReconnectAttempts
    /\ GaveUp

\* an event that tells the 'connection' subscribers that the retries are over:
\* a 'connection' event other than the two ordinary statuses
IsTerminalStatus(d) ==
    /\ d.type = "connection"
    /\ d.data # [status |-> "disconnected"]
    /\ d.data # [status |-> "connected"]

\* C2: when the reconnect policy gives up, a final 'connection' event that
\* marks "disconnected, attempts exhausted" is dispatched in that same step
\* and reaches the 'connection' subscribers
C2_TerminalStatusDispatched ==
    (GaveUp /\ Registered(listeners, "connection") # <<>>) =>
        /\ \E i \in 1..Len(dispatched) : IsTerminalStatus(dispatched[i])
        /\ \E i \in 1..Len(calls) : IsTerminalStatus(calls[i])

\* C3: after disconnect() and until the caller calls connect() again, no
\* reconnect timer opens a channel and no close event schedules a reconnect
C3_DisconnectIsTerminal ==
    afterDisconnect =>
        /\ ~(lastOp.op = "reconnectTimer" /\ ~lastOp.threw)
        /\ ~(lastOp.op = "onclose" /\ ~GaveUp)

\* C4: after disconnect() no dispatch invokes a handler subscribed before it:
\* disconnect() leaves an empty registry, and no step invokes a handler for an
\* event type that disconnect() emptied and that was not subscribed again
C4_NoHandlerAfterDisconnect ==
    /\ (lastOp.op = "disconnect") => (listeners = EmptyMap)
    /\ \A i \in 1..Len(calls) : calls[i].type \notin dropped

C4_Witness ==
    /\ dropped # {}
    /\ dispatched # <<>>
    /\ dispatched[1].type \in dropped
    /\ calls = <<>>

Unsubscribers == {"hUnsub"}

\* C6: a dispatch of type T invokes every handler subscribed to T when the
\* dispatch starts, once per entry and in subscription order, each with the
\* event dispatched (for registries made by subscribe alone: no handler of T
\* unsubscribes while it runs)
C6_EachHandlerOnceInOrder ==
    [][(Len(dispatched') = 1
           /\ Range(Registered(listeners, dispatched'[1].type)) \cap Unsubscribers = {})
       => /\ HandlersOf(calls') = Registered(listeners, dispatched'[1].type)
          /\ \A i \in 1..Len(calls') :
                /\ calls'[i].type = dispatched'[1].type
                /\ calls'[i].data = dispatched'[1].data]_vars

C6_Witness ==
    /\ lastOp.op = "onmessage"
    /\ Len(calls) = 2
    /\ calls[1].h # calls[2].h
    /\ HandlersOf(calls) = Registered(listeners, dispatched[1].type)

\* the update carried by an enveloped stock_update frame
IsStockUpdate(op) ==
    /\ op.op = "onmessage"
    /\ op.frame.text = "object"
    /\ Get(op.frame.value, "type") = "stock_update"

\* the symbol a stock_update frame is about, in either wire shape
SymbolOf(v) == IF "data" \in DOMAIN v THEN Get(v.data, "symbol") ELSE Get(v, "symbol")

Symbols(snapshot) == {snapshot.stocks[i].symbol : i \in 1..Len(snapshot.stocks)}

ViewOf(snapshot, symbol) ==
    snapshot.stocks[CHOOSE i \in 1..Len(snapshot.stocks) :
                        snapshot.stocks[i].symbol = symbol]

\* C7: with a loaded snapshot that has symbol S, an enveloped stock_update for
\* S handed to the Dashboard's subscriber leaves a StockView of S in which the
\* fields of the update have the update's values and the others are kept
C7_UpdateIsMerged ==
    (/\ IsStockUpdate(lastOp)
     /\ "data" \in DOMAIN lastOp.frame.value
     /\ "onStockUpdate" \in Range(HandlersOf(calls))
     /\ dashboardData # NULL
     /\ SymbolOf(lastOp.frame.value) \in Symbols(dashboardData))
    => LET update == lastOp.frame.value.data
           view == ViewOf(dashboardData, update.symbol)
       IN  /\ \A f \in DOMAIN update : f \in DOMAIN view /\ view[f] = update[f]
           /\ \A f \in (DOMAIN view) \ (DOMAIN update) :
                 view[f] = ViewOf(Snapshot, update.symbol)[f]

\* C8: a stock_update for a symbol that the loaded snapshot does not have
\* leaves the snapshot as it was
C8_UnknownSymbolDropped ==
    [][(/\ IsStockUpdate(lastOp')
        /\ "onStockUpdate" \in Range(HandlersOf(calls'))
        /\ dashboardData # NULL
        /\ SymbolOf(lastOp'.frame.value) \notin Symbols(dashboardData))
       => dashboardData' = dashboardData]_vars

C8_Witness ==
    /\ IsStockUpdate(lastOp)
    /\ "onStockUpdate" \in Range(HandlersOf(calls))
    /\ dashboardData = Snapshot
    /\ SymbolOf(lastOp.frame.value) = "ZZZZ"

\* a frame whose decoding fails: JSON.parse raises, or the read of its type does
Malformed(frame) == JSONparse(frame).threw \/ JSONparse(frame).isNull

\* C9: a malformed frame changes nothing in the manager, invokes no handler,
\* dispatches nothing and raises nothing out of the callback; a frame that
\* decodes is dispatched by its type, whatever arrived before it
C9_MalformedFrameDropped ==
    [][(lastOp'.op = "onmessage") =>
         IF Malformed(lastOp'.frame)
         THEN /\ UNCHANGED serviceVars
              /\ chan'[lastOp'.c] = "OPEN"
              /\ calls' = <<>>
              /\ dispatched' = <<>>
              /\ ~escaped'
         ELSE /\ Len(dispatched') = 1
              /\ dispatched'[1].type = Get(JSONparse(lastOp'.frame).value, "type")
              /\ (Registered(listeners, dispatched'[1].type) # <<>>) =>
                    (calls' # <<>> /\ calls'[1].h = listeners[dispatched'[1].type][1])
              /\ ~escaped']_vars

C9_Witness ==
    /\ lastOp.op = "onmessage"
    /\ Malformed(lastOp.frame)
    /\ chan[lastOp.c] = "OPEN"
    /\ Registered(listeners, "quote") # <<>>
    /\ calls = <<>>
    /\ console = <<"Error parsing WebSocket message:">>

\* C10: the alert list never holds more than alertRetentionCount alerts
C10_AtMostFiveAlerts == Len(alerts) <= alertRetentionCount

C10_Witness ==
    /\ lastOp.op = "onmessage"
    /\ arrivals > alertRetentionCount
    /\ Len(alerts) = alertRetentionCount
    /\ Len(ttlTimers) > alertRetentionCount

\* C11: after n distinct alerts arrived with no expiry and no dismissal in
\* between, the list holds the min(n, 5) most recent ones, newest first (the
\* k-th arrival carries message k)
C11_MostRecentNewestFirst ==
    /\ Len(alerts) = (IF arrivals < alertRetentionCount THEN arrivals
                      ELSE alertRetentionCount)
    /\ \A i \in 1..Len(alerts) : alerts[i].message = arrivals - i + 1

C11_Witness ==
    /\ arrivals = 7
    /\ [i \in 1..Len(alerts) |-> alerts[i].message] = <<7, 6, 5, 4, 3>>

\* the alerts of a list whose TTL has not elapsed at time t
NotDue(list, t) == SelectSeq(list, LAMBDA a : a.timestamp + alertTtlMs > t)

\* C12: while AlertBar stays mounted, an alert enqueued at t0 leaves the list
\* only by its own dismissal, by being pushed out by newer alerts, or by its
\* expiry at t0 + alertTtlMs, and no alert is in the list after t0 + alertTtlMs:
\* a dismissal removes one alert, a TTL timer removes no alert whose TTL has
\* not elapsed, an arrival removes at most the oldest of a full list
C12_PresentUntilTtlThenAbsent ==
    [][/\ \A i \in 1..Len(alerts') : now' <= alerts'[i].timestamp + alertTtlMs
       /\ (lastOp'.op = "dismiss") => (Len(alerts') = Len(alerts) - 1)
       /\ (lastOp'.op = "ttlTimer") => (NotDue(alerts', now) = NotDue(alerts, now))
       /\ (lastOp'.op = "onmessage" /\ arrivals' = arrivals + 1) =>
             (Tail(alerts') = SubSeq(alerts, 1, Len(alerts') - 1))
       /\ (lastOp'.op = "tick") => (alerts' = alerts)]_vars

\* entries of a list of alerts or of timers that carry an id
WithId(list, id) == Cardinality({i \in 1..Len(list) : list[i].id = id})

\* C13: a dismissal removes the alert at once; a TTL timer whose alert was
\* already removed (fewer alerts than pending timers carry its id: the oldest
\* of them, whose timer fires first, are gone) leaves the list as it is and
\* raises nothing
C13_DismissThenTimerNoOp ==
    [][/\ (lastOp'.op = "dismiss") =>
             /\ \A i \in 1..Len(alerts') : alerts'[i].id # lastOp'.id
             /\ ~escaped'
       /\ (lastOp'.op = "ttlTimer"
              /\ WithId(alerts, lastOp'.id) < WithId(ttlTimers, lastOp'.id)) =>
             /\ alerts' = alerts
             /\ ~escaped']_vars

\* C14: a payload goes out only in a send made while the channel is open, on
\* that channel and once; a send made in any other state transmits nothing,
\* and no other step of the manager transmits anything: nothing is kept to be
\* sent after a later open
C14_SendOnlyWhenConnected ==
    /\ (lastOp.op = "send" /\ lastOp.connected) =>
          (\E c \in Channels : transmitted = <<[c |-> c, data |-> lastOp.data]>>)
    /\ (lastOp.op = "send" /\ ~lastOp.connected) => (transmitted = <<>>)
    /\ (lastOp.op # "send") => (transmitted = <<>>)

\* a send was refused, and now the channel opens
C14_Witness ==
    /\ refused
    /\ lastOp.op = "onopen"
    /\ chan[ws] = "OPEN"
    /\ transmitted = <<>>

\* what a send made while the channel is open returns
SendAccepted == UNDEFINED

\* C15: a send made while the channel is not open gives the caller a result
\* that differs from the result of a send that went out, and raises nothing
C15_SendRejectedIsSignalled ==
    (lastOp.op = "send" /\ ~lastOp.connected) =>
        /\ lastOp.returned # SendAccepted
        /\ ~escaped

\* C16: in a dispatch of type T in which a handler raises, every handler
\* subscribed to T when the dispatch starts still runs, once per entry and in
\* subscription order, each failure is caught and logged, and nothing is
\* raised out of the dispatch (no handler of T unsubscribes while it runs)
C16_FailingHandlerIsolated ==
    [][(/\ Len(dispatched') = 1
        /\ "hThrow" \in Range(Registered(listeners, dispatched'[1].type))
        /\ Range(Registered(listeners, dispatched'[1].type)) \cap Unsubscribers = {})
       => /\ HandlersOf(calls') = Registered(listeners, dispatched'[1].type)
          /\ ~escaped'
          /\ Count(console', "Error in WebSocket listener:")
                = Count(Registered(listeners, dispatched'[1].type), "hThrow")]_vars

C16_Witness ==
    /\ lastOp.op = "onmessage"
    /\ HandlersOf(calls) = <<"hThrow", "hA">>
    /\ console = <<"Error in WebSocket listener:">>
    /\ ~escaped

\* C17: a dispatch of type T invokes exactly the handlers subscribed to T when
\* it starts, once per entry and in order, whatever the handlers subscribe or
\* unsubscribe while they run
C17_StableSnapshotDuringDispatch ==
    [][(Len(dispatched') = 1) =>
          (HandlersOf(calls') = Registered(listeners, dispatched'[1].type))]_vars

\* C18: the reconnect attempt counter is between 0 and maxReconnectAttempts
C18_CounterWithinBudget ==
    reconnectAttempts \in 0..maxReconnectAttempts

\* the counter was reset by an open, climbed back to the maximum, and a
\* further close left it there
C18_Witness ==
    /\ everOpened
    /\ reconnectAttempts = maxReconnectAttempts
    /\ lastOp.op = "onclose"
    /\ GaveUp

\* C19: disconnect() leaves the attempt counter at 0, so that the connect()
\* that follows has all of its maxReconnectAttempts reconnects
C19_DisconnectResetsCounter ==
    (lastOp.op = "disconnect") => (reconnectAttempts = 0)

\* C20: disconnect() with no socket raises nothing and leaves the socket
\* slots, the counter and the timers as they are; a disconnect() right after
\* a disconnect() changes nothing in the manager
C20_DisconnectIdempotent ==
    [][(lastOp'.op = "disconnect") =>
          /\ ~escaped'
          /\ (ws = 0) => (/\ ws' = 0
                          /\ chan' = chan
                          /\ reconnectAttempts' = reconnectAttempts
                          /\ reconnectTimers' = reconnectTimers
                          /\ listeners' = EmptyMap)
          /\ (lastOp.op = "disconnect") => UNCHANGED serviceVars]_vars

\* a second disconnect() in a row, after a socket had been created
C20_Witness ==
    /\ lastOp.op = "disconnect"
    /\ lastOp.again
    /\ everConnected
    /\ ws = 0
    /\ listeners = EmptyMap
    /\ ~escaped

\* C21: the open event of a socket leaves the attempt counter at 0 and the
\* socket open (the manager is connected when the socket is the one it
\* holds), and dispatches one 'connection' event with status "connected",
\* which every 'connection' subscriber receives
C21_OpenResetsAndAnnounces ==
    (lastOp.op = "onopen") =>
        /\ reconnectAttempts = 0
        /\ chan[lastOp.c] = "OPEN"
        /\ (ws = lastOp.c) => isConnected(Cur)
        /\ dispatched = <<[type |-> "connection", data |-> [status |-> "connected"]]>>
        /\ HandlersOf(calls) = Registered(listeners, "connection")
        /\ \A i \in 1..Len(calls) : calls[i].data = [status |-> "connected"]

\* a socket made by a reconnect opens while the counter is above 0
C21_Witness ==
    /\ lastOp.op = "onopen"
    /\ lastOp.was > 1
    /\ ws = lastOp.c
    /\ reconnectAttempts = 0
    /\ calls # <<>>

\* C22: the close event of a socket leaves the socket closed (the manager is
\* not connected when the socket is the one it holds) and dispatches one
\* 'connection' event with status "disconnected" to every 'connection'
\* subscriber before the reconnect policy runs: the handlers find the attempt
\* counter as it was before the policy counted this attempt
C22_DisconnectedThenReconnect ==
    (lastOp.op = "onclose") =>
        /\ chan[lastOp.c] \in {"CLOSED", "FREE"}
        /\ (ws = lastOp.c) => ~isConnected(Cur)
        /\ dispatched = <<[type |-> "connection", data |-> [status |-> "disconnected"]]>>
        /\ HandlersOf(calls) = Registered(listeners, "connection")
        /\ \A i \in 1..Len(calls) :
              /\ calls[i].data = [status |-> "disconnected"]
              /\ calls[i].attempts = (IF GaveUp THEN reconnectAttempts
                                      ELSE reconnectAttempts - 1)
        /\ GaveUp \/ reconnectTimers # <<>>

\* an open socket closes, a subscriber is told, and a reconnect is scheduled
C22_Witness ==
    /\ lastOp.op = "onclose"
    /\ everOpened
    /\ calls # <<>>
    /\ calls[1].attempts = 0
    /\ reconnectAttempts = 1
    /\ reconnectTimers # <<>>
    /\ reconnectTimers[Len(reconnectTimers)].setAt = now

\* C23: when new WebSocket() raises inside connect(), the 'connection'
\* subscribers are told "disconnected" and the reconnect policy runs (it
\* schedules a reconnect or gives up), and nothing is raised to the caller
C23_OpenFailureHandledAsClose ==
    (lastOp.op \in {"connect", "reconnectTimer"} /\ lastOp.threw) =>
        /\ ~escaped
        /\ \E i \in 1..Len(dispatched) :
              dispatched[i] = [type |-> "connection", data |-> [status |-> "disconnected"]]
        /\ \/ GaveUp
           \/ \E i \in 1..Len(reconnectTimers) : reconnectTimers[i].setAt = now

\* C24: the ids of the alerts in the list are pairwise distinct
C24_AlertIdsDistinct ==
    \A i, j \in 1..Len(alerts) : (i # j) => (alerts[i].id # alerts[j].id)

\* the instants the clock can show: a number of TTLs plus a number of 1 ms steps
Instants == {k * alertTtlMs + j : k \in 0..MaxLiveAlerts, j \in 0..MaxTicks}

\* an alert enqueued at t0 is in the list
Enqueued(t0) == \E i \in 1..Len(alerts) : alerts[i].timestamp = t0

\* C25: an alert that is in the list is eventually out of it, when timers that
\* are due are run and time passes; and no alert is in the list once the timers
\* carrying its id have all fired
C25_EveryAlertEventuallyRemoved ==
    /\ \A t0 \in Instants : Enqueued(t0) ~> ~Enqueued(t0)
    /\ [](\A i \in 1..Len(alerts) : WithId(ttlTimers, alerts[i].id) > 0)

\* a TTL timer has removed an alert and left a newer one in the list
C25_Witness ==
    /\ lastOp.op = "ttlTimer"
    /\ arrivals = MaxLiveAlerts
    /\ Len(alerts) = 1
    /\ alerts[1].timestamp > 0
    /\ now = alertTtlMs

\* C26: the feed is on screen exactly while the list of the mounted AlertBar
\* is not empty: hidden before the first alert, shown from it, hidden when the
\* list drains by expiry or dismissal, shown again by the next alert
C26_ShownIffNonEmpty == feedShown(Cur) <=> (alertBarMounted /\ alerts # <<>>)

\* the list drained by a dismissal and a later alert brought the feed back
C26_Witness ==
    /\ lastOp.op = "onmessage"
    /\ Len(ttlTimers) = 2
    /\ Len(alerts) = 1
    /\ alerts[1].timestamp > 0
    /\ feedShown(Cur)

\* C27: subscribe adds one entry for the callback whether or not it is already
\* subscribed, and a dispatch invokes every handler as many times as it has
\* entries under the dispatched type (for registries made by subscribe alone:
\* no handler of the type unsubscribes while it runs)
C27_DuplicatesKept ==
    [][/\ (lastOp'.op = "subscribe")
            => Entries(listeners', lastOp'.type, lastOp'.h)
                  = Entries(listeners, lastOp'.type, lastOp'.h) + 1
       /\ (/\ Len(dispatched') = 1
           /\ Range(Registered(listeners, dispatched'[1].type)) \cap Unsubscribers = {})
            => \A h \in CallerHandlers :
                  Count(HandlersOf(calls'), h)
                     = Entries(listeners, dispatched'[1].type, h)]_vars

\* a handler subscribed twice to 'quote' was invoked twice by one frame
C27_Witness ==
    /\ lastOp.op = "onmessage"
    /\ Len(dispatched) = 1
    /\ dispatched[1].type = "quote"
    /\ Entries(listeners, "quote", "hA") = 2
    /\ Count(HandlersOf(calls), "hA") = 2

\* C28: unsubscribe(eventType, handler) takes the first entry equal to handler
\* out of the array of eventType and leaves every other entry where it was
\* relative to the others; with no such entry (type unknown or handler not
\* subscribed) the registry is as before; in both cases nothing is thrown
C28_RemovesFirstMatchOnly ==
    [][(lastOp'.op = "unsubscribe") =>
          LET t == lastOp'.type
              h == lastOp'.h
              before == Registered(listeners, t)
              after == Registered(listeners', t)
          IN  /\ ~escaped'
              /\ DOMAIN listeners' = DOMAIN listeners
              /\ \A u \in DOMAIN listeners : (u # t) => listeners'[u] = listeners[u]
              /\ IF \E i \in 1..Len(before) : before[i] = h
                 THEN \E i \in 1..Len(before) :
                         /\ before[i] = h
                         /\ \A j \in 1..(i - 1) : before[j] # h /\ after[j] = before[j]
                         /\ Len(after) = Len(before) - 1
                         /\ \A j \in i..Len(after) : after[j] = before[j + 1]
                 ELSE after = before]_vars

\* the first of two entries of a handler was removed from around another one
C28_Witness ==
    /\ lastOp.op = "unsubscribe"
    /\ lastOp.had = 2
    /\ Len(Registered(listeners, lastOp.type)) = 2
    /\ listeners[lastOp.type][1] # lastOp.h
    /\ listeners[lastOp.type][2] = lastOp.h

\* C29: a stock_update that reaches Dashboard while no snapshot is loaded is
\* dropped: the snapshot stays unloaded, the subscriber raises nothing and
\* nothing leaves the message callback
C29_UpdateBeforeSnapshotDropped ==
    [][(/\ IsStockUpdate(lastOp')
        /\ "onStockUpdate" \in Range(HandlersOf(calls'))
        /\ dashboardData = NULL)
       => /\ dashboardData' = NULL
          /\ ~escaped'
          /\ console' = <<>>
          /\ UNCHANGED <<dashMounted, loading, fetchPending, wsConnected>>]_vars

\* a stock_update was delivered to Dashboard while its first fetch was pending
C29_Witness ==
    /\ IsStockUpdate(lastOp)
    /\ "onStockUpdate" \in Range(HandlersOf(calls))
    /\ dashMounted
    /\ fetchPending
    /\ loading
    /\ dashboardData = NULL

\* C30: a frame that decodes is dispatched under the type it carries, whether
\* the application knows that type or not: every invocation is of a handler
\* subscribed to that type and carries the decoded envelope, no handler
\* subscribed to other types alone is invoked, and (no handler of the type
\* unsubscribing while it runs) every entry of the type is invoked
C30_DispatchedByLiteralType ==
    [][(lastOp'.op = "onmessage" /\ ~Malformed(lastOp'.frame)) =>
          LET v == JSONparse(lastOp'.frame).value
              t == Get(v, "type")
          IN  /\ dispatched' = <<[type |-> t, data |-> v]>>
              /\ \A i \in 1..Len(calls') :
                    /\ calls'[i].type = t
                    /\ calls'[i].data = v
                    /\ calls'[i].h \in Range(Registered(listeners, t))
                                         \cup Range(Registered(listeners', t))
              /\ (Range(Registered(listeners, t)) \cap Unsubscribers = {})
                    => HandlersOf(calls') = Registered(listeners, t)]_vars

\* a 'quote' frame reached the subscriber of 'quote' and not the one of
\* 'connection'
C30_Witness ==
    /\ lastOp.op = "onmessage"
    /\ Len(dispatched) = 1
    /\ dispatched[1].type = "quote"
    /\ HandlersOf(calls) = <<"hA">>
    /\ Registered(listeners, "connection") = <<"hThrow">>

\* C31: the error event of a channel dispatches the error to the subscribers
\* of 'error' and does nothing else: the channel is not closed by the manager,
\* the attempt counter and the reconnect timers are as before, and no
\* 'connection' event is dispatched
C31_ErrorOnlyNotifies ==
    [][(lastOp'.op = "onerror") =>
          /\ dispatched' = <<[type |-> "error", data |-> [error |-> "Event"]]>>
          /\ HandlersOf(calls') = Registered(listeners, "error")
          /\ chan' = [chan EXCEPT ![lastOp'.c] = "FAILED"]
          /\ UNCHANGED <<ws, reconnectAttempts, reconnectTimers, listeners>>]_vars

\* the error event of the open channel reached a subscriber of 'error' while a
\* subscriber of 'quote' was left alone
C31_Witness ==
    /\ lastOp.op = "onerror"
    /\ ws = lastOp.c
    /\ everOpened
    /\ HandlersOf(calls) = <<"hA">>
    /\ Registered(listeners, "quote") # <<>>
    /\ reconnectTimers = <<>>

\* C32: at most one channel of the manager is open, so that no event of the
\* peer is dispatched into the registry by two channels
C32_AtMostOneLiveChannel == Cardinality({c \in Channels : chan[c] = "OPEN"}) <= 1

\* C33: the stock_update subscriber of Dashboard tests the snapshot of the
\* moment of the dispatch: with a snapshot loaded that has symbol S, an update
\* that carries symbol S itself is merged into the StockView of S, although
\* the subscription dates from before the snapshot
C33_DecidesOnCurrentSnapshot ==
    [][(/\ IsStockUpdate(lastOp')
        /\ "onStockUpdate" \in Range(HandlersOf(calls'))
        /\ dashboardData # NULL
        /\ "symbol" \in DOMAIN lastOp'.frame.value
        /\ lastOp'.frame.value.symbol \in Symbols(dashboardData))
       => /\ dashboardData' # NULL
          /\ LET update == lastOp'.frame.value
                 view == ViewOf(dashboardData', update.symbol)
             IN  \A f \in DOMAIN update : f \in DOMAIN view /\ view[f] = update[f]]_vars

\* C34: while the 'connection' subscriber of Dashboard is subscribed and no
\* channel is between its error event and its close event, the indicator of
\* Dashboard shows live exactly when the manager's current channel is open
C34_IndicatorAgreesWithChannel ==
    (/\ "onConnection" \in Range(Registered(listeners, "connection"))
     /\ \A c \in Channels : chan[c] # "FAILED")
    => (wsConnected <=> isConnected(Cur))

\* C35: the TTL timer of an alert takes at most that one alert out of the
\* list and leaves the others in their order; in particular an alert whose own
\* TTL has not elapsed when a timer fires is still in the list after it
C35_TimerRemovesOnlyItsAlert ==
    [][(lastOp'.op = "ttlTimer") =>
          /\ \/ alerts' = alerts
             \/ \E i \in 1..Len(alerts) :
                   /\ alerts[i].id = lastOp'.id
                   /\ alerts' = [j \in 1..(Len(alerts) - 1) |->
                                    IF j < i THEN alerts[j] ELSE alerts[j + 1]]
          /\ \A i \in 1..Len(alerts) :
                (alerts[i].timestamp + alertTtlMs > now)
                   => \E j \in 1..Len(alerts') : alerts'[j] = alerts[i]]_vars

\* C36: updateStockData for an update of symbol S changes nothing but the
\* StockViews of S: the snapshot has the same fields, the same summary and the
\* same symbols at the same places, and the views of other symbols are as before
C36_OnlyViewOfSymbolChanges ==
    [][(lastOp'.op = "reconcile" /\ dashboardData # NULL) =>
          /\ dashboardData' # NULL
          /\ DOMAIN dashboardData' = DOMAIN dashboardData
          /\ dashboardData'.summary = dashboardData.summary
          /\ Len(dashboardData'.stocks) = Len(dashboardData.stocks)
          /\ \A i \in 1..Len(dashboardData.stocks) :
                /\ dashboardData'.stocks[i].symbol = dashboardData.stocks[i].symbol
                /\ (dashboardData.stocks[i].symbol # Get(lastOp'.update, "symbol"))
                      => dashboardData'.stocks[i] = dashboardData.stocks[i]]_vars

\* an update of AAPL was merged into a snapshot of MSFT and AAPL
C36_Witness ==
    /\ lastOp.op = "reconcile"
    /\ lastOp.update = [symbol |-> "AAPL", price |-> 105]
    /\ dashboardData # NULL
    /\ dashboardData.stocks = <<[symbol |-> "MSFT", price |-> 300, volume |-> 1000],
                                [symbol |-> "AAPL", price |-> 105, volume |-> 1000]>>

\* C37: the registry changes by subscribe, unsubscribe and disconnect alone:
\* the events of a channel, the reconnect timer, connect and the clock leave
\* every entry where it is, and a frame of whatever channel is open reaches
\* the entries of its type in their order
C37_RegistrySurvivesReconnect ==
    [][/\ (lastOp'.op \notin {"subscribe", "unsubscribe", "disconnect"})
            => listeners' = listeners
       /\ (lastOp'.op = "onmessage")
            => HandlersOf(calls') = Registered(listeners, "quote")]_vars

\* two handlers, never dropped by disconnect, received in their order a frame
\* of the channel opened by a reconnect timer
C37_Witness ==
    /\ lastOp.op = "onmessage"
    /\ now >= reconnectDelay
    /\ ~afterDisconnect
    /\ reconnectAttempts = 0
    /\ HandlersOf(calls) = <<"hThrow", "hA">>
    /\ Registered(listeners, "quote") = <<"hThrow", "hA">>

\* the manager is connected and its budget is whole
Reconnected == isConnected(Cur) /\ reconnectAttempts = 0

\* C38: once a reconnect is scheduled, the manager ends up either connected
\* with its attempt counter at 0 or stopped with no socket and no timer left;
\* the socket of an attempt that opens makes it connected at once, with
\* 'connected' dispatched and the counter at 0
C38_ReconnectsOrStops ==
    /\ (reconnectTimers # <<>>) ~> (Reconnected \/ Quiescent)
    /\ [][(lastOp'.op = "onopen") =>
             /\ Reconnected'
             /\ dispatched' = <<[type |-> "connection",
                                 data |-> [status |-> "connected"]]>>]_vars

\* the third attempt after the loss of the connection was accepted
C38_Witness ==
    /\ lastOp.op = "onopen"
    /\ lastOp.was = 3
    /\ now = 3 * reconnectDelay
    /\ Reconnected
    /\ HandlersOf(calls) = <<"hA">>

====
